---- MODULE Spec2Model ----
(***************************************************************************)
(* State-machine model of the memcached-like command handler of            *)
(* src/src/main.rs: CommandHandler::poll with its write path (the closure  *)
(* handed to Socket::transmit) and its read path (the closure handed to    *)
(* Socket::receive), the Store (HashMap<Vec<u8>, Entry>) and a socket      *)
(* whose receive side is a byte queue (MockSocket.rbuf, a VecDeque<u8>     *)
(* of which one receive call hands out the first contiguous slice).        *)
(*                                                                         *)
(* Bytes are their ASCII codes.  A u32 is a pair <<hi, lo>> of 16-bit      *)
(* limbs (value hi * 65536 + lo), so that the full range 0 .. 2^32-1 is    *)
(* representable.                                                          *)
(***************************************************************************)
EXTENDS Integers, Sequences, FiniteSets, TLC

VARIABLES
    handler,    \* CommandHandler { state, data }
    rbuf,       \* MockSocket.rbuf: bytes received from the peer, not yet read
    ring,       \* where rbuf keeps them: the VecDeque's head and capacity
    out,        \* every byte handed to the transport by transmit, in order
    cap,        \* length of the buffer transmit hands to its producer
    input,      \* the bytes the peer sends over the whole run
    fed,        \* how many bytes of input were appended to rbuf so far
    chunking,   \* how the bytes fed so far were split into extend calls
    ret,        \* value returned by the last poll call
    tx,         \* whether the last poll call performed a transmit call
    skipped,    \* number of "Skipping received data" error! records logged
    pc          \* "run", "panic" (process aborted) or "hang" (poll never returns)

vars ==
    <<handler, rbuf, ring, out, cap, input, fed, chunking, ret, tx, skipped, pc>>

----------------------------------------------------------------------------
(* Program constants                                                       *)

MAX_COMMAND_LEN == 3
MAX_KEY_LEN == 250
MAX_FLAGS_DIGITS_LEN == 10
MAX_SIZE_DIGITS_LEN == 20
MOCK_BUF_LEN == 100
\* the smallest capacity the VecDeque<u8> of MockSocket.rbuf allocates
MIN_NON_ZERO_CAP == 8

SP == 32
NL == 10

\* b"ERROR\r\n"
ERROR_RESPONSE == <<69, 82, 82, 79, 82, 13, 10>>
\* b"VALUE "
VALUE_LITERAL == <<86, 65, 76, 85, 69, 32>>
\* b"END\r\n"
END_MISS_LITERAL == <<69, 78, 68, 13, 10>>
\* b"\r\nEND\r\n"
END_HIT_LITERAL == <<13, 10, 69, 78, 68, 13, 10>>
\* b"get", b"set"
GET_TOKEN == <<103, 101, 116>>
SET_TOKEN == <<115, 101, 116>>

----------------------------------------------------------------------------
(* Bounds of the model                                                     *)

\* transmit buffers of 1 .. MaxCap bytes are explored, besides MOCK_BUF_LEN
MaxCap == 2
\* an input of at most MaxSplitLen bytes is split at every position, a longer
\* one only within NearCut bytes of its start and of its end
MaxSplitLen == 14
NearCut == 1

----------------------------------------------------------------------------
(* Sequence helpers                                                        *)

Min(a, b) == IF a < b THEN a ELSE b
Max(a, b) == IF a > b THEN a ELSE b
Take(s, n) == SubSeq(s, 1, n)
Drop(s, n) == SubSeq(s, n + 1, Len(s))
Rep(c, n) == [i \in 1..n |-> c]

----------------------------------------------------------------------------
(* Entries, stores, inputs                                                 *)

\* Entry { flags: u32, value: Vec<u8> }
Entry(flags, value) == [flags |-> flags, value |-> value]

KeyA == <<97>>
KeyAB == <<97, 98>>
KeyEmpty == <<>>
Key250 == Rep(107, MAX_KEY_LEN)

\* Entry::new(b"bar")
EntryBar == Entry(<<0, 0>>, <<98, 97, 114>>)
\* flags 4294967295, value "x"
EntryMax == Entry(<<65535, 65535>>, <<120>>)
\* flags 10, empty value
EntryNoValue == Entry(<<0, 10>>, <<>>)
\* flags 0, the one value byte 0xff, which no UTF-8 text holds
EntryRaw == Entry(<<0, 0>>, <<255>>)

Store1(k, e) == [x \in {k} |-> e]
Store2(k1, e1, k2, e2) == [x \in {k1, k2} |-> IF x = k1 THEN e1 ELSE e2]
StoreNone == [x \in {} |-> EntryBar]

Stores ==
    { StoreNone,
      Store1(KeyA, EntryBar),
      Store1(KeyA, EntryNoValue),
      Store2(KeyA, EntryMax, KeyAB, EntryBar),
      Store1(KeyAB, EntryBar),
      Store1(KeyA, EntryRaw),
      Store2(KeyEmpty, EntryBar, Key250, EntryBar) }

GetLine(k) == GET_TOKEN \o <<SP>> \o k \o <<NL>>

\* "get a\n", "get b\n", "get ab\n", "get \n"
LineGetA == GetLine(KeyA)
LineGetB == GetLine(<<98>>)
LineGetAB == GetLine(KeyAB)
LineGetEmpty == GetLine(KeyEmpty)
\* "get a b\n"
LineGetAB2 == GET_TOKEN \o <<SP, 97, SP, 98, NL>>
\* "zz a\n", "zz\n", "\n", " a\n"
LineZZArg == <<122, 122, SP, 97, NL>>
LineZZ == <<122, 122, NL>>
LineNL == <<NL>>
LineSpArg == <<SP, 97, NL>>
\* "gets a\n", "toolong\n"
LineGets == <<103, 101, 116, 115, SP, 97, NL>>
LineTooLong == <<116, 111, 111, 108, 111, 110, 103, NL>>
\* "get\n", "set\n"
LineGet == GET_TOKEN \o <<NL>>
LineSet == SET_TOKEN \o <<NL>>
\* "set a\n", "set a 0\n"
LineSetA == SET_TOKEN \o <<SP, 97, NL>>
LineSetFull == SET_TOKEN \o <<SP, 97, SP, 48, NL>>
\* "get " + 250 key bytes + "\n", "get " + 251 key bytes + "\n"
LineGet250 == GetLine(Key250)
LineGet251 == GetLine(Rep(107, MAX_KEY_LEN + 1))
\* "set " + 251 key bytes + "\n"
LineSet251 == SET_TOKEN \o <<SP>> \o Rep(107, MAX_KEY_LEN + 1) \o <<NL>>

ShortLines ==
    { LineGetA, LineGetB, LineGetAB, LineGetEmpty, LineGetAB2,
      LineZZArg, LineZZ, LineNL, LineSpArg, LineGets, LineTooLong,
      LineGet, LineSet, LineSetA, LineSetFull }

FirstLines == { LineGetA, LineGet }
SecondLines == { LineGetA, LineZZ }

Inputs ==
    ShortLines \cup { LineGet250, LineGet251, LineSet251 }
               \cup { a \o b : a \in FirstLines, b \in SecondLines }

Caps == (1..MaxCap) \cup {MOCK_BUF_LEN}

----------------------------------------------------------------------------
(* State (enum State) and its constructors                                 *)

ReadingCommand(buf) == [tag |-> "ReadingCommand", buf |-> buf]
ReadingKey(cmd, key) == [tag |-> "ReadingKey", cmd |-> cmd, key |-> key]
SendingError(flush_line, remaining, error) ==
    [tag |-> "SendingError", flush_line |-> flush_line,
     remaining |-> remaining, error |-> error]
FlushLine == [tag |-> "FlushLine"]
SendingGetVALUE(remaining, key, entry) ==
    [tag |-> "SendingGetVALUE", remaining |-> remaining, key |-> key,
     entry |-> entry]
SendingGetKey(key, sent, entry) ==
    [tag |-> "SendingGetKey", key |-> key, sent |-> sent, entry |-> entry]
SendingGetKeySpace(entry) == [tag |-> "SendingGetKeySpace", entry |-> entry]
SendingGetFlags(data, sent, entry) ==
    [tag |-> "SendingGetFlags", data |-> data, sent |-> sent, entry |-> entry]
SendingGetFlagsSpace(entry) == [tag |-> "SendingGetFlagsSpace", entry |-> entry]
SendingGetLen(data, sent, entry) ==
    [tag |-> "SendingGetLen", data |-> data, sent |-> sent, entry |-> entry]
SendingGetNewline(entry) == [tag |-> "SendingGetNewline", entry |-> entry]
SendingGetData(entry, sent) ==
    [tag |-> "SendingGetData", entry |-> entry, sent |-> sent]
SendingEnd(remaining) == [tag |-> "SendingEnd", remaining |-> remaining]

\* impl Default for State
Default == ReadingCommand(<<>>)

\* wants_to_send without its SendingEnd arm
wants_to_send_no_end(st) ==
    st.tag \in { "SendingError", "SendingGetVALUE", "SendingGetKey",
                 "SendingGetFlags", "SendingGetFlagsSpace", "SendingGetLen",
                 "SendingGetNewline", "SendingGetData" }

\* wants_to_send with an arm for ReadingKey
wants_to_send_reading_key(st) ==
    st.tag \in { "SendingError", "SendingGetVALUE", "SendingGetKey",
                 "SendingGetFlags", "SendingGetFlagsSpace", "SendingGetLen",
                 "SendingGetNewline", "SendingGetData", "SendingEnd",
                 "ReadingKey" }

\* State::wants_to_send
wants_to_send(st) ==
    st.tag \in { "SendingError", "SendingGetVALUE", "SendingGetKey",
                 "SendingGetFlags", "SendingGetFlagsSpace", "SendingGetLen",
                 "SendingGetNewline", "SendingGetData", "SendingEnd" }

\* CommandHandler::new
new(data) == [state |-> Default, data |-> data]

----------------------------------------------------------------------------
(* Decimal rendering: write!(buf, "{}", n) into a heapless::Vec            *)

\* a rendering that divides each limb by ten on its own, dropping the
\* remainder of the high limb
RECURSIVE fmt_u32_no_carry(_)
fmt_u32_no_carry(f) ==
    IF f[1] = 0 /\ f[2] < 10
    THEN <<48 + f[2]>>
    ELSE fmt_u32_no_carry(<<f[1] \div 10, f[2] \div 10>>) \o <<48 + (f[2] % 10)>>

\* Display of a u32 held as <<hi, lo>>: long division by ten, limb by limb
RECURSIVE fmt_u32(_)
fmt_u32(f) ==
    IF f[1] = 0 /\ f[2] < 10
    THEN <<48 + f[2]>>
    ELSE LET t == (f[1] % 10) * 65536 + f[2]
         IN  fmt_u32(<<f[1] \div 10, t \div 10>>) \o <<48 + (t % 10)>>

\* Display of a usize
RECURSIVE fmt_usize(_)
fmt_usize(n) ==
    IF n < 10 THEN <<48 + n>> ELSE fmt_usize(n \div 10) \o <<48 + (n % 10)>>

\* write! into a heapless::Vec of the given capacity is Ok iff the digits fit
write_fits(digits, capacity) == Len(digits) <= capacity

----------------------------------------------------------------------------
(* Write path: the closure poll hands to Socket::transmit.  Each tx_ operator*)
(* is one arm of the match in the loop, entered with room = buf.len() > 0;   *)
(* it gives the next state and the bytes copied into buf.                    *)

Arm(st, bytes) == [state |-> st, bytes |-> bytes, brk |-> FALSE, panic |-> FALSE]
ArmBreak(st) == [state |-> st, bytes |-> <<>>, brk |-> TRUE, panic |-> FALSE]
ArmPanic(st) == [state |-> st, bytes |-> <<>>, brk |-> FALSE, panic |-> TRUE]

\* the SendingError arm resetting to the initial state whatever flush_line is
tx_SendingError_no_flush(st, room) ==
    LET n == Min(room, Len(st.remaining))
    IN  IF n > 0
        THEN Arm(IF Len(st.remaining) - n = 0
                 THEN Default
                 ELSE [st EXCEPT !.remaining = Drop(@, n)],
                 Take(st.remaining, n))
        ELSE Arm(st, <<>>)

tx_SendingError(st, room) ==
    LET n == Min(room, Len(st.remaining))
    IN  IF n > 0
        THEN Arm(IF Len(st.remaining) - n = 0
                 THEN (IF st.flush_line THEN FlushLine ELSE Default)
                 ELSE [st EXCEPT !.remaining = Drop(@, n)],
                 Take(st.remaining, n))
        ELSE Arm(st, <<>>)

tx_SendingGetVALUE(st, room) ==
    LET n == Min(room, Len(st.remaining))
    IN  IF n > 0
        THEN Arm(IF Len(st.remaining) - n = 0
                 THEN SendingGetKey(st.key, 0, st.entry)
                 ELSE [st EXCEPT !.remaining = Drop(@, n)],
                 Take(st.remaining, n))
        ELSE Arm(st, <<>>)

tx_SendingGetKey(st, room) ==
    LET remaining == Drop(st.key, st.sent)
        n == Min(room, Len(remaining))
    IN  IF n > 0
        THEN Arm(IF st.sent + n = Len(st.key)
                 THEN SendingGetKeySpace(st.entry)
                 ELSE [st EXCEPT !.sent = @ + n],
                 Take(remaining, n))
        ELSE Arm(st, <<>>)

tx_SendingGetKeySpace(st, data) ==
    LET flags_str == fmt_u32(data[st.entry].flags)
    IN  IF write_fits(flags_str, MAX_FLAGS_DIGITS_LEN)
        THEN Arm(SendingGetFlags(flags_str, 0, st.entry), <<SP>>)
        ELSE ArmPanic(st)

tx_SendingGetFlags(st, room) ==
    LET remaining == Drop(st.data, st.sent)
        n == Min(room, Len(remaining))
    IN  IF n > 0
        THEN Arm(IF st.sent + n = Len(st.data)
                 THEN SendingGetFlagsSpace(st.entry)
                 ELSE [st EXCEPT !.sent = @ + n],
                 Take(remaining, n))
        ELSE Arm(st, <<>>)

tx_SendingGetFlagsSpace(st, data) ==
    LET len_str == fmt_usize(Len(data[st.entry].value))
    IN  IF write_fits(len_str, MAX_SIZE_DIGITS_LEN)
        THEN Arm(SendingGetLen(len_str, 0, st.entry), <<SP>>)
        ELSE ArmPanic(st)

\* the SendingGetLen arm going straight to the value bytes
tx_SendingGetLen_skips_newline(st, room) ==
    LET remaining == Drop(st.data, st.sent)
        n == Min(room, Len(remaining))
    IN  IF n > 0
        THEN Arm(IF st.sent + n = Len(st.data)
                 THEN SendingGetData(st.entry, 0)
                 ELSE [st EXCEPT !.sent = @ + n],
                 Take(remaining, n))
        ELSE Arm(st, <<>>)

tx_SendingGetLen(st, room) ==
    LET remaining == Drop(st.data, st.sent)
        n == Min(room, Len(remaining))
    IN  IF n > 0
        THEN Arm(IF st.sent + n = Len(st.data)
                 THEN SendingGetNewline(st.entry)
                 ELSE [st EXCEPT !.sent = @ + n],
                 Take(remaining, n))
        ELSE Arm(st, <<>>)

tx_SendingGetNewline(st) == Arm(SendingGetData(st.entry, 0), <<NL>>)

tx_SendingGetData(st, data, room) ==
    LET value == data[st.entry].value
        remaining == Drop(value, st.sent)
        n == Min(room, Len(remaining))
    IN  IF n > 0
        THEN Arm(IF st.sent + n = Len(value)
                 THEN SendingEnd(END_HIT_LITERAL)
                 ELSE [st EXCEPT !.sent = @ + n],
                 Take(remaining, n))
        ELSE Arm(st, <<>>)

tx_SendingEnd(st, room) ==
    LET n == Min(room, Len(st.remaining))
    IN  IF n > 0
        THEN Arm(IF Len(st.remaining) - n = 0
                 THEN Default
                 ELSE [st EXCEPT !.remaining = Drop(@, n)],
                 Take(st.remaining, n))
        ELSE Arm(st, <<>>)

\* One iteration of `while buf.len() > 0 { match &mut self.state { .. } }`
transmit_arm(st, data, room) ==
    CASE st.tag = "SendingError" -> tx_SendingError(st, room)
      [] st.tag = "SendingGetVALUE" -> tx_SendingGetVALUE(st, room)
      [] st.tag = "SendingGetKey" -> tx_SendingGetKey(st, room)
      [] st.tag = "SendingGetKeySpace" -> tx_SendingGetKeySpace(st, data)
      [] st.tag = "SendingGetFlags" -> tx_SendingGetFlags(st, room)
      [] st.tag = "SendingGetFlagsSpace" -> tx_SendingGetFlagsSpace(st, data)
      [] st.tag = "SendingGetLen" -> tx_SendingGetLen(st, room)
      [] st.tag = "SendingGetNewline" -> tx_SendingGetNewline(st)
      [] st.tag = "SendingGetData" -> tx_SendingGetData(st, data, room)
      [] st.tag = "SendingEnd" -> tx_SendingEnd(st, room)
      [] OTHER -> ArmBreak(st)

\* The whole producer closure, called with a buffer of `room` bytes left and
\* `produced` bytes already written.  exit is "return" when the closure
\* returns (bytes_produced, ()), "panic" when an expect fails, and "hang" when
\* an iteration copies no byte: it leaves both buf and self.state as they
\* were, so the while loop repeats it forever.
RECURSIVE transmit_closure(_, _, _, _)
transmit_closure(st, data, room, produced) ==
    IF room = 0
    THEN [state |-> st, bytes |-> produced, exit |-> "return"]
    ELSE LET r == transmit_arm(st, data, room)
         IN  IF r.panic
             THEN [state |-> st, bytes |-> produced, exit |-> "panic"]
             ELSE IF r.brk
             THEN [state |-> st, bytes |-> produced, exit |-> "return"]
             ELSE IF Len(r.bytes) = 0
             THEN [state |-> st, bytes |-> produced, exit |-> "hang"]
             ELSE transmit_closure(r.state, data, room - Len(r.bytes),
                                   produced \o r.bytes)

----------------------------------------------------------------------------
(* Read path: the closure poll hands to Socket::receive.  Each rx_ operator  *)
(* is one arm of `match (&mut self.state, c)` for one byte c: the next state *)
(* and Store, whether an error! record was logged, whether todo!() was hit.  *)

Rcv(st, data) == [state |-> st, data |-> data, skipped |-> 0, panic |-> FALSE]
RcvSkip(st, data) == [state |-> st, data |-> data, skipped |-> 1, panic |-> FALSE]
RcvPanic(st, data) == [state |-> st, data |-> data, skipped |-> 0, panic |-> TRUE]

\* a push that still succeeds on a full vector
push_ok_when_full(v, capacity) == Len(v) <= capacity

\* heapless::Vec::push: Ok iff the vector is not full
push_ok(v, capacity) == Len(v) < capacity

\* (State::ReadingCommand(cmd), b' ' | b'\n')
rx_ReadingCommand_term(st, data, c) ==
    IF st.buf /= GET_TOKEN /\ st.buf /= SET_TOKEN
    THEN Rcv(SendingError(c = SP, ERROR_RESPONSE, "UnknownCommand"), data)
    ELSE IF c = NL
    THEN Rcv(SendingError(FALSE, ERROR_RESPONSE, "MissingArgument"), data)
    ELSE Rcv(ReadingKey(IF st.buf = GET_TOKEN THEN "Get" ELSE "Set", <<>>), data)

\* (State::ReadingCommand(cmd), _)
rx_ReadingCommand_byte(st, data, c) ==
    IF push_ok(st.buf, MAX_COMMAND_LEN)
    THEN Rcv(ReadingCommand(Append(st.buf, c)), data)
    ELSE Rcv(SendingError(TRUE, ERROR_RESPONSE, "CommandTooLong"), data)

\* the ReadingKey terminator arm with a Set branch that stores an empty Entry
rx_ReadingKey_term_set_inserts(st, data, c) ==
    IF st.cmd = "Get"
    THEN IF st.key \in DOMAIN data
         THEN Rcv(SendingGetVALUE(VALUE_LITERAL, st.key, st.key), data)
         ELSE IF c = NL
         THEN Rcv(SendingEnd(END_MISS_LITERAL), data)
         ELSE Rcv(st, data)
    ELSE Rcv(Default,
             [x \in DOMAIN data \cup {st.key} |->
                 IF x = st.key THEN Entry(<<0, 0>>, <<>>) ELSE data[x]])

\* the ReadingKey terminator arm starting a fresh key after a miss that a
\* space ended
rx_ReadingKey_term_clears_key(st, data, c) ==
    IF st.cmd = "Get"
    THEN IF st.key \in DOMAIN data
         THEN Rcv(SendingGetVALUE(VALUE_LITERAL, st.key, st.key), data)
         ELSE IF c = NL
         THEN Rcv(SendingEnd(END_MISS_LITERAL), data)
         ELSE Rcv([st EXCEPT !.key = <<>>], data)
    ELSE RcvPanic(st, data)

\* (State::ReadingKey { cmd, key }, b' ' | b'\n'); the entry pointer is
\* modelled by the key under which the Store holds the Entry
rx_ReadingKey_term(st, data, c) ==
    IF st.cmd = "Get"
    THEN IF st.key \in DOMAIN data
         THEN Rcv(SendingGetVALUE(VALUE_LITERAL, st.key, st.key), data)
         ELSE IF c = NL
         THEN Rcv(SendingEnd(END_MISS_LITERAL), data)
         ELSE Rcv(st, data)
    ELSE RcvPanic(st, data)

\* the ReadingKey byte arm appending without looking at the capacity
rx_ReadingKey_byte_unbounded(st, data, c) ==
    Rcv([st EXCEPT !.key = Append(@, c)], data)

\* (State::ReadingKey { key, .. }, _)
rx_ReadingKey_byte(st, data, c) ==
    IF push_ok(st.key, MAX_KEY_LEN)
    THEN Rcv([st EXCEPT !.key = Append(@, c)], data)
    ELSE Rcv(SendingError(TRUE, ERROR_RESPONSE, "KeyTooLong"), data)

\* the SendingError arm without the newline test that clears flush_line
rx_SendingError_keeps_flush(st, data, c) == Rcv(st, data)

\* (State::SendingError { flush_line, .. }, c)
rx_SendingError(st, data, c) ==
    IF st.flush_line /\ c = NL
    THEN Rcv([st EXCEPT !.flush_line = FALSE], data)
    ELSE Rcv(st, data)

\* (State::FlushLine, c)
rx_FlushLine(st, data, c) ==
    IF c = NL THEN Rcv(Default, data) ELSE Rcv(st, data)

\* the Sending arms treating a newline as FlushLine does
rx_Sending_newline_resets(st, data, c) ==
    IF c = NL THEN Rcv(Default, data) ELSE RcvSkip(st, data)

\* (State::SendingGetVALUE { .. }, _) .. (State::SendingEnd { .. }, _)
rx_Sending(st, data, c) == RcvSkip(st, data)

\* The body of `for c in data.iter().copied() { match (&mut self.state, c) }`
receive_byte(st, data, c) ==
    CASE st.tag = "ReadingCommand" /\ c \in {SP, NL} ->
           rx_ReadingCommand_term(st, data, c)
      [] st.tag = "ReadingCommand" /\ c \notin {SP, NL} ->
           rx_ReadingCommand_byte(st, data, c)
      [] st.tag = "ReadingKey" /\ c \in {SP, NL} ->
           rx_ReadingKey_term(st, data, c)
      [] st.tag = "ReadingKey" /\ c \notin {SP, NL} ->
           rx_ReadingKey_byte(st, data, c)
      [] st.tag = "SendingError" -> rx_SendingError(st, data, c)
      [] st.tag = "FlushLine" -> rx_FlushLine(st, data, c)
      [] OTHER -> rx_Sending(st, data, c)

\* The visitor closure over bytes[lo..hi] of the delivered slice, entered with
\* the running result acc; it stops where todo!() unwinds.  The loop over the
\* slice is unfolded by halves, which visits the bytes in order.
RECURSIVE receive_range(_, _, _, _)
receive_range(acc, bytes, lo, hi) ==
    IF acc.panic \/ lo > hi
    THEN acc
    ELSE IF lo = hi
    THEN LET r == receive_byte(acc.state, acc.data, bytes[lo])
         IN  IF r.panic
             THEN [acc EXCEPT !.panic = TRUE]
             ELSE [state |-> r.state, data |-> r.data,
                   skipped |-> acc.skipped + r.skipped, panic |-> FALSE]
    ELSE LET mid == (lo + hi) \div 2
             left == receive_range(acc, bytes, lo, mid)
         IN  IF left.panic THEN left ELSE receive_range(left, bytes, mid + 1, hi)

\* The whole visitor closure: for c in data.iter().copied() { .. }
receive_closure(st, data, bytes) ==
    receive_range(Rcv(st, data), bytes, 1, Len(bytes))

----------------------------------------------------------------------------
(* CommandHandler::poll                                                    *)

\* MockSocket.rbuf is a VecDeque<u8>: its bytes (rbuf, front first) lie in a
\* ring of `cap` slots from slot `head` on, wrapping to slot 0 after the last
VecDeque(head, capacity) == [head |-> head, cap |-> capacity]

\* MockSocket::new: rbuf: Default::default()
MockSocket_new == VecDeque(0, 0)

\* VecDeque::reserve for a deque of `len` bytes: the capacity grows to the
\* larger of its double and the length asked for, at least MIN_NON_ZERO_CAP,
\* and a wrapped content is made to fit the longer ring by moving its
\* shorter section (the head section moves to the end of the ring)
reserve(rg, len, additional) ==
    IF len + additional <= rg.cap
    THEN rg
    ELSE LET new_cap == Max(Max(rg.cap * 2, len + additional), MIN_NON_ZERO_CAP)
             head_len == rg.cap - rg.head
             tail_len == len - head_len
         IN  IF rg.head <= rg.cap - len
             THEN VecDeque(rg.head, new_cap)
             ELSE IF head_len > tail_len /\ new_cap - rg.cap >= tail_len
             THEN VecDeque(rg.head, new_cap)
             ELSE VecDeque(new_cap - head_len, new_cap)

\* s.rbuf.extend(<n bytes>): reserve, then copy behind the last byte
extend(rg, len, n) == reserve(rg, len, n)

\* self.rbuf.as_slices().0.len(): the bytes up to the end of the ring
first_slice_len(rg, len) == IF len = 0 THEN 0 ELSE Min(len, rg.cap - rg.head)

\* for _ in 0..n { self.rbuf.pop_front(); }, n >= 1 within the first slice
pop_front(rg, n) == VecDeque((rg.head + n) % rg.cap, rg.cap)

\* length of the well-formed UTF-8 sequence that starts at b[i], 0 if none
Utf8CharLen(b, i) ==
    LET cont(j) == j <= Len(b) /\ b[j] \in 128..191
        within(j, lo, hi) == j <= Len(b) /\ b[j] \in lo..hi
    IN  CASE b[i] < 128 -> 1
          [] b[i] \in 194..223 -> IF cont(i + 1) THEN 2 ELSE 0
          [] b[i] = 224 ->
               IF within(i + 1, 160, 191) /\ cont(i + 2) THEN 3 ELSE 0
          [] b[i] \in (225..236) \cup (238..239) ->
               IF cont(i + 1) /\ cont(i + 2) THEN 3 ELSE 0
          [] b[i] = 237 ->
               IF within(i + 1, 128, 159) /\ cont(i + 2) THEN 3 ELSE 0
          [] b[i] = 240 ->
               IF within(i + 1, 144, 191) /\ cont(i + 2) /\ cont(i + 3)
               THEN 4 ELSE 0
          [] b[i] \in 241..243 ->
               IF cont(i + 1) /\ cont(i + 2) /\ cont(i + 3) THEN 4 ELSE 0
          [] b[i] = 244 ->
               IF within(i + 1, 128, 143) /\ cont(i + 2) /\ cont(i + 3)
               THEN 4 ELSE 0
          [] OTHER -> 0

\* std::str::from_utf8(&b[i - 1 ..]).is_ok()
RECURSIVE from_utf8_ok(_, _)
from_utf8_ok(b, i) ==
    IF i > Len(b)
    THEN TRUE
    ELSE LET n == Utf8CharLen(b, i)
         IN  IF n = 0 THEN FALSE ELSE from_utf8_ok(b, i + n)

\* a poll that attempts the receive only when it made no transmit call
poll_receive_unless_transmit(self, rb, rg, capacity) ==
    IF wants_to_send(self.state)
    THEN LET w == transmit_closure(self.state, self.data, capacity, <<>>)
             sent == w.exit = "return" /\ from_utf8_ok(w.bytes, 1)
         IN  [self |-> [self EXCEPT !.state = w.state], rbuf |-> rb,
              ring |-> rg, bytes |-> IF sent THEN w.bytes ELSE <<>>,
              tx |-> TRUE, ret |-> sent, skipped |-> 0,
              exit |-> IF w.exit = "return" /\ ~sent THEN "panic" ELSE w.exit]
    ELSE LET n == first_slice_len(rg, Len(rb))
             r == receive_closure(self.state, self.data, Take(rb, n))
         IN  IF r.panic
             THEN [self |-> [state |-> r.state, data |-> r.data],
                   rbuf |-> rb, ring |-> rg, bytes |-> <<>>, tx |-> FALSE,
                   ret |-> FALSE, skipped |-> r.skipped, exit |-> "panic"]
             ELSE [self |-> [state |-> r.state, data |-> r.data],
                   rbuf |-> Drop(rb, n),
                   ring |-> IF n = 0 THEN rg ELSE pop_front(rg, n),
                   bytes |-> <<>>, tx |-> FALSE, ret |-> rb /= <<>>,
                   skipped |-> r.skipped, exit |-> "return"]

\* One call of poll on handler `self` with a MockSocket that holds the bytes
\* `rb` in the ring `rg` and hands out a transmit buffer of `capacity` bytes.
\* self, rbuf and ring are the handler and the socket afterwards, bytes what
\* was transmitted, tx whether transmit was called, ret the value returned,
\* exit "return", "panic" or "hang".  MockSocket::transmit unwraps
\* from_utf8 of what the producer wrote; MockSocket::receive hands the
\* visitor the first slice of rbuf and pops that many bytes afterwards, so
\* a visitor that unwinds leaves every byte in rbuf.
poll(self, rb, rg, capacity) ==
    LET w == IF wants_to_send(self.state)
             THEN transmit_closure(self.state, self.data, capacity, <<>>)
             ELSE [state |-> self.state, bytes |-> <<>>, exit |-> "return"]
        write_happened == wants_to_send(self.state)
    IN  IF w.exit /= "return" \/ ~from_utf8_ok(w.bytes, 1)
        THEN [self |-> [self EXCEPT !.state = w.state], rbuf |-> rb,
              ring |-> rg, bytes |-> <<>>, tx |-> write_happened,
              ret |-> FALSE, skipped |-> 0,
              exit |-> IF w.exit /= "return" THEN w.exit ELSE "panic"]
        ELSE LET recv_happened == rb /= <<>>
                 n == first_slice_len(rg, Len(rb))
                 r == receive_closure(w.state, self.data, Take(rb, n))
             IN  IF r.panic
                 THEN [self |-> [state |-> r.state, data |-> r.data],
                       rbuf |-> rb, ring |-> rg, bytes |-> w.bytes,
                       tx |-> write_happened, ret |-> FALSE,
                       skipped |-> r.skipped, exit |-> "panic"]
                 ELSE [self |-> [state |-> r.state, data |-> r.data],
                       rbuf |-> Drop(rb, n),
                       ring |-> IF n = 0 THEN rg ELSE pop_front(rg, n),
                       bytes |-> w.bytes,
                       tx |-> write_happened,
                       ret |-> write_happened \/ recv_happened,
                       skipped |-> r.skipped,
                       exit |-> "return"]

----------------------------------------------------------------------------
(* The state machine                                                       *)

Init ==
    /\ \E d \in Stores : handler = new(d)
    /\ rbuf = <<>>
    /\ ring = MockSocket_new
    /\ out = <<>>
    /\ cap \in Caps
    /\ input \in Inputs
    /\ fed = 0
    /\ chunking = "none"
    /\ ret = FALSE
    /\ tx = FALSE
    /\ skipped = 0
    /\ pc = "run"

\* how the split of the input looks after one more extend call of n bytes
NextChunking(n) ==
    CASE chunking = "none" -> "one"
      [] chunking = "one" -> IF fed = 1 /\ n = 1 THEN "bytes" ELSE "mixed"
      [] chunking = "bytes" -> IF n = 1 THEN "bytes" ELSE "mixed"
      [] OTHER -> "mixed"

\* the positions of the input where an extend call may end
Cuts ==
    { p \in 1..Len(input) :
        \/ Len(input) <= MaxSplitLen
        \/ p <= NearCut
        \/ p >= Len(input) - NearCut }

ChunkSizes == { n \in 1..(Len(input) - fed) : fed + n \in Cuts }

\* s.rbuf.extend(<the next n bytes of the input>)
DoExtend(n) ==
    /\ rbuf' = rbuf \o SubSeq(input, fed + 1, fed + n)
    /\ ring' = extend(ring, Len(rbuf), n)
    /\ fed' = fed + n
    /\ chunking' = NextChunking(n)
    /\ UNCHANGED <<handler, out, cap, input, ret, tx, skipped, pc>>

\* The peer's bytes arrive at any moment, also in the middle of a reply.
Extend ==
    /\ pc = "run"
    /\ \E n \in ChunkSizes : DoExtend(n)

\* The driver of main: the next chunk is fed only once poll has returned false.
ExtendDriver ==
    /\ pc = "run"
    /\ rbuf = <<>>
    /\ ret = FALSE
    /\ \E n \in ChunkSizes : DoExtend(n)

\* handler.poll(&mut s)
Poll ==
    /\ pc = "run"
    /\ LET p == poll(handler, rbuf, ring, cap)
       IN  /\ handler' = p.self
           /\ rbuf' = p.rbuf
           /\ ring' = p.ring
           /\ out' = out \o p.bytes
           /\ tx' = p.tx
           /\ ret' = IF p.exit = "return" THEN p.ret ELSE ret
           /\ skipped' = skipped + p.skipped
           /\ pc' = IF p.exit = "return" THEN "run" ELSE p.exit
    /\ UNCHANGED <<cap, input, fed, chunking>>

Next == Extend \/ Poll

Spec == Init /\ [][Next]_vars

NextDriver == ExtendDriver \/ Poll

SpecDriver == Init /\ [][NextDriver]_vars

----------------------------------------------------------------------------
(* The reply encoding over many entries: one stored Entry, one `get a\n`   *)

\* the 16-bit limbs the sampled flags are made of; 15258 * 65536 + 51711 is
\* 999999999, the largest flags of nine digits
FlagLimbsHi == {0, 1, 9, 10, 15258, 65535}
FlagLimbsLo == {0, 1, 9, 10, 99, 100, 999, 1000, 9999, 10000, 51711, 51712, 65535}
FlagSamples == FlagLimbsHi \X FlagLimbsLo
\* the sampled value lengths
LenSamples == {0, 1, 9, 10, 11, 99, 100}

FmtEntries ==
    { Entry(f, <<120>>) : f \in FlagSamples }
        \cup { Entry(<<0, 0>>, Rep(120, n)) : n \in LenSamples }

\* data.insert(b"a", <entry>); CommandHandler::new(&data); the peer sends
\* `get a\n`
InitFmt ==
    /\ \E e \in FmtEntries : handler = new(Store1(KeyA, e))
    /\ rbuf = <<>>
    /\ ring = MockSocket_new
    /\ out = <<>>
    /\ cap \in Caps
    /\ input = LineGetA
    /\ fed = 0
    /\ chunking = "none"
    /\ ret = FALSE
    /\ tx = FALSE
    /\ skipped = 0
    /\ pc = "run"

SpecFmt == InitFmt /\ [][Next]_vars

----------------------------------------------------------------------------
(* The driver loop of main run as a function: s.rbuf.extend(chunk);        *)
(* while handler.poll(&mut s) {}                                           *)

\* the loop unrolls to at most 2^PollDoublings poll calls
PollDoublings == 9

Run(self, rb, rg, bytes, exit, going) ==
    [self |-> self, rbuf |-> rb, ring |-> rg, out |-> bytes, exit |-> exit,
     going |-> going]

\* one test of the loop condition: a poll call unless the loop has ended
while_poll(x, capacity) ==
    IF ~x.going
    THEN x
    ELSE LET p == poll(x.self, x.rbuf, x.ring, capacity)
         IN  Run(p.self, p.rbuf, p.ring, x.out \o p.bytes, p.exit,
                 p.exit = "return" /\ p.ret)

\* 2^k tests of the loop condition, one after the other
RECURSIVE while_poll_pow(_, _, _)
while_poll_pow(x, capacity, k) ==
    IF k = 0
    THEN while_poll(x, capacity)
    ELSE LET y == while_poll_pow(x, capacity, k - 1)
         IN  IF y.going THEN while_poll_pow(y, capacity, k - 1) ELSE y

\* let mut s = MockSocket::new(); s.rbuf.extend(chunk);
\* while handler.poll(&mut s) {}
feed_and_poll(self, chunk, capacity) ==
    while_poll_pow(Run(self, chunk, extend(MockSocket_new, 0, Len(chunk)),
                       <<>>, "return", TRUE),
                   capacity, PollDoublings)

\* the whole input delivered as one contiguous chunk to a fresh handler
one_chunk_run(data, bytes, capacity) == feed_and_poll(new(data), bytes, capacity)

----------------------------------------------------------------------------
(* Vocabulary of the properties                                            *)

IsPrefix(p, s) == Len(p) <= Len(s) /\ Take(s, Len(p)) = p

\* `get k\n` with k of 1 .. 250 bytes, none of them a space or a newline
IsGetRequest(line) ==
    /\ Len(line) >= 6
    /\ Len(line) <= 255
    /\ Take(line, 4) = <<103, 101, 116, 32>>
    /\ line[Len(line)] = 10
    /\ \A i \in 5..(Len(line) - 1) : line[i] \notin {32, 10}

RequestKey(line) == SubSeq(line, 5, Len(line) - 1)

\* the decimal renderings expected of the flags and lengths of the entries
ExpectedFlags(e) ==
    CASE e.flags = <<0, 0>> -> <<48>>
      [] e.flags = <<0, 10>> -> <<49, 48>>
      [] e.flags = <<65535, 65535>> -> <<52, 50, 57, 52, 57, 54, 55, 50, 57, 53>>

ExpectedLen(e) ==
    CASE Len(e.value) = 0 -> <<48>>
      [] Len(e.value) = 1 -> <<49>>
      [] Len(e.value) = 3 -> <<51>>

\* VALUE <key> <flags> <length>\n<value>\r\nEND\r\n
ExpectedHit(k, e) ==
    <<86, 65, 76, 85, 69, 32>> \o k \o <<32>> \o ExpectedFlags(e) \o <<32>>
        \o ExpectedLen(e) \o <<10>> \o e.value \o <<13, 10, 69, 78, 68, 13, 10>>

\* END\r\n
ExpectedMiss == <<69, 78, 68, 13, 10>>

\* ERROR\r\n
ExpectedError == <<69, 82, 82, 79, 82, 13, 10>>

AllFed == fed = Len(input)
\* everything was fed and read, and the last poll returned false
Quiescent == AllFed /\ rbuf = <<>> /\ pc = "run" /\ ret = FALSE
\* everything was fed and read, and polling ended (false, or never returning)
Ended == AllFed /\ rbuf = <<>> /\ (pc /= "run" \/ ret = FALSE)
OneChunk == chunking = "one" /\ AllFed
ByteWise == AllFed /\ (chunking = "bytes" \/ (chunking = "one" /\ Len(input) = 1))
Tag == handler.state.tag

----------------------------------------------------------------------------
(* Properties                                                              *)

\* C1: a `get k\n` for a stored key, delivered whole and polled until poll
\* returns false, transmits exactly the hit reply and leaves the handler in
\* the initial state, whatever the capacity of the transmit buffer.
C1_GetHitReply ==
    (OneChunk /\ Quiescent /\ IsGetRequest(input)
        /\ RequestKey(input) \in DOMAIN handler.data)
    => /\ out = ExpectedHit(RequestKey(input), handler.data[RequestKey(input)])
       /\ handler.state = Default

\* C2: a `get k\n` for a key that is not stored, delivered whole and polled
\* until poll returns false, transmits exactly END\r\n and leaves the handler
\* in the initial state, whatever the capacity of the transmit buffer.
C2_GetMissReply ==
    (OneChunk /\ Ended /\ IsGetRequest(input)
        /\ RequestKey(input) \notin DOMAIN handler.data)
    => /\ pc = "run"
       /\ out = ExpectedMiss
       /\ handler.state = Default

\* C2 witness: a miss was answered through a one-byte transmit buffer
C2_Witness ==
    /\ OneChunk /\ Quiescent /\ IsGetRequest(input)
    /\ RequestKey(input) \notin DOMAIN handler.data
    /\ cap = 1
    /\ out = ExpectedMiss

\* C3: however the input is split into chunks, each polled until poll returns
\* false, the bytes transmitted are those of the input delivered as one chunk.
C3_ChunkIndependence ==
    Quiescent => out = one_chunk_run(handler.data, input, cap).out

\* C4: `get k\n` for a stored key delivered one byte per receive call gives
\* the same successful reply and the same final (initial) state as the
\* request delivered as a single chunk.
C4_ByteAtATime ==
    (ByteWise /\ Quiescent /\ IsGetRequest(input)
        /\ RequestKey(input) \in DOMAIN handler.data)
    => LET one == one_chunk_run(handler.data, input, cap)
       IN  /\ out = one.out
           /\ handler.state = one.self.state
           /\ out = ExpectedHit(RequestKey(input),
                                handler.data[RequestKey(input)])
           /\ handler.state = Default

\* an input that is one line: its only newline is its last byte
IsOneLine(line) ==
    /\ Len(line) >= 1
    /\ line[Len(line)] = 10
    /\ \A i \in 1..(Len(line) - 1) : line[i] /= 10

\* index of the first space or newline of a line
FirstTerminator(line) ==
    CHOOSE i \in 1..Len(line) :
        /\ line[i] \in {32, 10}
        /\ \A j \in 1..(i - 1) : line[j] \notin {32, 10}

FirstToken(line) == Take(line, FirstTerminator(line) - 1)

\* number of bytes between the first space of the line and the next
\* space or newline
KeyTokenLen(line) ==
    LET rest == Drop(line, FirstTerminator(line))
    IN  FirstTerminator(rest) - 1

IsGetOrSet(tok) == tok = <<103, 101, 116>> \/ tok = <<115, 101, 116>>

\* a single line that is a protocol error: the first token is not get/set
\* (which covers a first token of more than 3 bytes), get/set is directly
\* followed by the newline, or the key has more than 250 bytes
IsErrorLine(line) ==
    /\ IsOneLine(line)
    /\ \/ ~IsGetOrSet(FirstToken(line))
       \/ line[FirstTerminator(line)] = 10
       \/ KeyTokenLen(line) > 250

Resync == Tag \in {"SendingError", "FlushLine"}

C5_Inv ==
    IsErrorLine(input) =>
        /\ pc = "run"
        /\ Tag \in {"ReadingCommand", "ReadingKey", "SendingError", "FlushLine"}
        /\ IsPrefix(out, ExpectedError)
        /\ (Tag \in {"ReadingCommand", "ReadingKey"} /\ handler.state /= Default)
               => out = <<>>
        /\ (out /= <<>> /\ ~Resync)
               => (handler.state = Default /\ AllFed /\ rbuf = <<>>)
        /\ (AllFed /\ rbuf = <<>> /\ out = ExpectedError) => handler.state = Default
        /\ Quiescent => (out = ExpectedError /\ handler.state = Default)

C5_Step ==
    (IsErrorLine(input) /\ Resync)
        => \/ Resync'
           \/ (handler'.state = Default /\ AllFed' /\ rbuf' = <<>>)

\* C5: a single line that is a protocol error is answered by exactly one
\* ERROR\r\n and nothing else; from the moment the error is raised until the
\* newline of the line is read the handler only resynchronises (SendingError,
\* FlushLine), so no byte of the line starts a command or a key; and once the
\* newline is read and the reply sent the handler is in the initial state.
\* This holds for every split of the line and every arrival time of its parts.
C5_ErrorResync == []C5_Inv /\ [][C5_Step]_vars

\* C5 witness: an error line that arrived in several parts was answered
\* through a one-byte transmit buffer and the handler is ready again
C5_Witness ==
    /\ IsErrorLine(input) /\ Quiescent
    /\ chunking = "mixed" /\ cap = 1
    /\ Len(input) > 3
    /\ out = ExpectedError /\ handler.state = Default

\* C6: no reachable state is a process abort; a `set <key>` line is answered
\* and the handler can be polled again.
C6_SetNoAbort == pc /= "panic"

\* C7: every poll call returns: the loop of the write path stops after
\* finitely many iterations.
C7_PollTerminates == pc /= "hang"

IdleTags == {"ReadingCommand", "ReadingKey", "FlushLine"}

\* C8: a poll call made with nothing received and the handler in
\* ReadingCommand, ReadingKey or FlushLine returns false, performs no
\* transmit call and changes neither the handler (its state with the partly
\* read command or key, its Store) nor the output.
C8_IdlePoll ==
    [][(fed' = fed /\ pc = "run" /\ rbuf = <<>> /\ Tag \in IdleTags)
         => /\ ret' = FALSE
            /\ tx' = FALSE
            /\ handler' = handler
            /\ out' = out
            /\ pc' = "run"]_vars

\* C8 witness: an idle poll has returned false on a partly read key
C8_Witness ==
    /\ Tag = "ReadingKey" /\ handler.state.key /= <<>>
    /\ rbuf = <<>> /\ fed > 0
    /\ ret = FALSE /\ tx = FALSE /\ pc = "run"

GetStages ==
    {"SendingGetVALUE", "SendingGetKey", "SendingGetKeySpace", "SendingGetFlags",
     "SendingGetFlagsSpace", "SendingGetLen", "SendingGetNewline",
     "SendingGetData"}

\* C9: no step changes the Store, and the Entry an in-flight GET response
\* refers to is in the Store at every stage from SendingGetVALUE to
\* SendingGetData.
C9_StoreUnchanged ==
    /\ [][handler'.data = handler.data]_vars
    /\ [](Tag \in GetStages => handler.state.entry \in DOMAIN handler.data)

\* C9 witness: a GET response is in the middle of the value bytes, after input
\* that was read by several receive calls
C9_Witness ==
    /\ Tag = "SendingGetData" /\ handler.state.sent > 0
    /\ chunking = "mixed"

DiscardTags == GetStages \cup {"SendingEnd"}

SampleBytes == {0, 10, 13, 32, 97, 103, 255}

\* the number of bytes the step has taken from rbuf
Delivered == Len(rbuf) - Len(rbuf')

\* the state in which the receive attempt of the next poll call starts
StateAtReceive ==
    IF wants_to_send(handler.state)
    THEN transmit_closure(handler.state, handler.data, cap, <<>>).state
    ELSE handler.state

\* C10: in a GET response state or in SendingEnd every received byte is
\* discarded: each byte leaves the state and the Store as they are, and a
\* poll call whose receive attempt starts in such a state consumes the bytes
\* it is handed (at least one), logs each of them as skipped, ends in the
\* state and transmits the bytes it would with nothing received.
C10_HalfDuplexDiscard ==
    /\ [](Tag \in DiscardTags =>
            \A c \in SampleBytes :
                LET r == receive_byte(handler.state, handler.data, c)
                IN  r.state = handler.state /\ r.data = handler.data /\ ~r.panic)
    /\ [][(fed' = fed /\ pc = "run" /\ pc' = "run" /\ rbuf /= <<>>
             /\ StateAtReceive.tag \in DiscardTags)
            => LET quiet == poll(handler, <<>>, ring, cap)
               IN  /\ handler' = quiet.self
                   /\ out' = out \o quiet.bytes
                   /\ Delivered >= 1
                   /\ rbuf' = Drop(rbuf, Delivered)
                   /\ skipped' = skipped + Delivered]_vars

\* C10 witness: bytes were discarded and the GET response they arrived in goes on
C10_Witness == Tag = "SendingGetFlags" /\ skipped > 0

\* a decimal numeral without sign and without leading zeros
CanonicalDecimal(d) ==
    /\ Len(d) >= 1
    /\ \A i \in 1..Len(d) : d[i] \in 48..57
    /\ Len(d) > 1 => d[1] /= 48

\* the number a decimal numeral denotes, as <<hi, lo>> with lo a 16-bit limb
\* (hi exceeds 65535 when the numeral does not fit 32 bits)
RECURSIVE ParseU32(_)
ParseU32(d) ==
    IF d = <<>>
    THEN <<0, 0>>
    ELSE LET p == ParseU32(Take(d, Len(d) - 1))
             lo == p[2] * 10 + (d[Len(d)] - 48)
         IN  <<p[1] * 10 + (lo \div 65536), lo % 65536>>

\* the number a decimal numeral of a length denotes
RECURSIVE ParseNat(_)
ParseNat(d) ==
    IF d = <<>>
    THEN 0
    ELSE ParseNat(Take(d, Len(d) - 1)) * 10 + (d[Len(d)] - 48)

\* o reads as VALUE <k> <flags> <length>\n<value>\r\nEND\r\n with the flags and
\* the value of e: the two numerals are parsed back and compared
DecodesTo(o, k, e) ==
    LET h == 6 + Len(k) + 1
    IN  /\ Len(o) > h
        /\ Take(o, h) = <<86, 65, 76, 85, 69, 32>> \o k \o <<32>>
        /\ \E i1 \in (h + 1)..Len(o) : \E i2 \in (i1 + 1)..Len(o) :
              /\ o[i1] = 32
              /\ o[i2] = 10
              /\ CanonicalDecimal(SubSeq(o, h + 1, i1 - 1))
              /\ ParseU32(SubSeq(o, h + 1, i1 - 1)) = e.flags
              /\ CanonicalDecimal(SubSeq(o, i1 + 1, i2 - 1))
              /\ ParseNat(SubSeq(o, i1 + 1, i2 - 1)) = Len(e.value)
              /\ Drop(o, i2) = e.value \o <<13, 10, 69, 78, 68, 13, 10>>

\* C11: the flags of the stored Entry are rendered as their canonical
\* decimal numeral (parsing it back gives the flags: no leading zero, no
\* truncation) into at most 10 digits, the length of its value into at most
\* 20 digits, the formatting never fails, and a reply that was transmitted
\* to its end reads back as the flags, the exact number of value bytes and
\* the value bytes unchanged.
C11_FlagsValueRoundTrip ==
    /\ pc /= "panic"
    /\ Tag = "SendingGetFlags" =>
          /\ Len(handler.state.data) <= 10
          /\ CanonicalDecimal(handler.state.data)
          /\ ParseU32(handler.state.data)
                 = handler.data[handler.state.entry].flags
    /\ Tag = "SendingGetLen" =>
          /\ Len(handler.state.data) <= 20
          /\ CanonicalDecimal(handler.state.data)
          /\ ParseNat(handler.state.data)
                 = Len(handler.data[handler.state.entry].value)
    /\ (AllFed /\ rbuf = <<>> /\ pc = "run" /\ Tag = "ReadingCommand")
          => DecodesTo(out, KeyA, handler.data[KeyA])

\* C11 witness: the reply for the maximum flags 4294967295 was transmitted to
\* its end, ten digits of flags included
C11_Witness ==
    /\ Quiescent /\ handler.state = Default
    /\ handler.data[KeyA].flags = <<65535, 65535>>
    /\ Len(out) = 6 + 1 + 1 + 10 + 1 + 1 + 1 + 1 + 7

\* the stages of a GET response in their order, SendingEnd (which a miss
\* enters directly) last; every other state counts as after the pipeline
StageRank(t) ==
    CASE t = "SendingGetVALUE" -> 1
      [] t = "SendingGetKey" -> 2
      [] t = "SendingGetKeySpace" -> 3
      [] t = "SendingGetFlags" -> 4
      [] t = "SendingGetFlagsSpace" -> 5
      [] t = "SendingGetLen" -> 6
      [] t = "SendingGetNewline" -> 7
      [] t = "SendingGetData" -> 8
      [] t = "SendingEnd" -> 9
      [] OTHER -> 10

\* the bytes the stage of st has still to write
StageRest(st, data) ==
    CASE st.tag \in {"SendingGetVALUE", "SendingEnd"} -> st.remaining
      [] st.tag = "SendingGetKey" -> Drop(st.key, st.sent)
      [] st.tag \in {"SendingGetFlags", "SendingGetLen"} -> Drop(st.data, st.sent)
      [] st.tag \in {"SendingGetKeySpace", "SendingGetFlagsSpace"} -> <<32>>
      [] st.tag = "SendingGetNewline" -> <<10>>
      [] st.tag = "SendingGetData" -> Drop(data[st.entry].value, st.sent)

\* one iteration of the write loop on the current state with `room` bytes of
\* buffer left: it writes the longest part of the stage that fits, stays in
\* the stage while bytes of it are left, and moves to the very next stage
\* (the initial state after SendingEnd) once the stage is written
C12_Arm(room) ==
    LET rest == StageRest(handler.state, handler.data)
        r == transmit_arm(handler.state, handler.data, room)
    IN  /\ ~r.brk /\ ~r.panic
        /\ r.bytes = Take(rest, Min(room, Len(rest)))
        /\ IF rest /= <<>> /\ Len(r.bytes) = Len(rest)
           THEN /\ StageRank(r.state.tag) = StageRank(Tag) + 1
                /\ Tag = "SendingEnd" => r.state = Default
           ELSE /\ r.state.tag = Tag
                /\ StageRest(r.state, handler.data) = Drop(rest, Len(r.bytes))

C12_Inv ==
    Tag \in DiscardTags =>
        /\ \A room \in 1..cap : C12_Arm(room)
        /\ \A c \in SampleBytes :
              receive_byte(handler.state, handler.data, c).state = handler.state

\* the step has transmitted the last byte of a reply
EndWritten == Len(out') > Len(out) /\ Drop(out', Len(out') - 5) = <<69, 78, 68, 13, 10>>

C12_Step ==
    (Tag \in DiscardTags /\ pc' = "run") =>
        \/ Tag' \in DiscardTags /\ StageRank(Tag') >= StageRank(Tag)
        \/ EndWritten

\* C12: a GET response passes its stages in the one order SendingGetVALUE,
\* SendingGetKey, SendingGetKeySpace, SendingGetFlags, SendingGetFlagsSpace,
\* SendingGetLen, SendingGetNewline, SendingGetData, SendingEnd, initial
\* state: each iteration of the write loop stays in its stage or moves to the
\* next one, and moves only when the stage has been written in full; no
\* received byte changes a stage; and a poll call that returns never goes
\* back to an earlier stage or out of the pipeline unless it has transmitted
\* the end of the reply.
C12_Pipeline == []C12_Inv /\ [][C12_Step]_vars

\* C12 witness: a hit reply has reached the middle of its last stage while
\* bytes that arrived during the response were received
C12_Witness ==
    /\ Tag = "SendingEnd" /\ Len(handler.state.remaining) < 7
    /\ Len(out) > 7 /\ skipped > 0

SendingTags == DiscardTags \cup {"SendingError"}

\* no key and no value of the Store is empty
NoEmptySegment ==
    \A k \in DOMAIN handler.data : k /= <<>> /\ handler.data[k].value /= <<>>

\* C13: a poll call made in a Sending state with nothing left to read (and a
\* Store without empty keys or values) returns and moves the reply on: it
\* changes the state of the handler.  The call is deterministic, so one call
\* that leaves the Sending state as it is, is repeated by every later call
\* and the reply never reaches its end; with this step property repeated
\* calls send the rest of the reply and reach a reading state.
C13_ReplyCompletes ==
    [][(pc = "run" /\ fed' = fed /\ rbuf = <<>> /\ Tag \in SendingTags
          /\ NoEmptySegment)
         => (pc' = "run" /\ handler'.state /= handler.state)]_vars

\* the read-path transition applied to bytes[lo], .., bytes[hi] in order
\* (first to the lower half of the range, then to the upper half), from the
\* run x = [state, n] of the n bytes before them; it ends at a byte whose
\* transition aborts
RECURSIVE ReadInOrder(_, _, _, _, _)
ReadInOrder(x, data, bytes, lo, hi) ==
    IF lo > hi
    THEN x
    ELSE IF lo = hi
    THEN LET r == receive_byte(x.state, data, bytes[lo])
         IN  IF r.panic THEN x ELSE [state |-> r.state, n |-> x.n + 1]
    ELSE LET mid == (lo + hi) \div 2
             half == ReadInOrder(x, data, bytes, lo, mid)
         IN  IF half.n < mid
             THEN half
             ELSE ReadInOrder(half, data, bytes, mid + 1, hi)

\* C14: a poll call makes the transmit call exactly when the state at entry
\* wants to send and writes nothing otherwise; a call that returns has then
\* made one receive attempt, which delivers bytes from the front of what is
\* waiting (at least one byte if any is waiting), its state is the state
\* after the transmit call with the read-path transition applied to each
\* delivered byte in order, and it returns true exactly when the transmit
\* call was made or at least one byte was delivered.
C14_StepShape ==
    [][(pc = "run" /\ fed' = fed)
         => /\ tx' = wants_to_send(handler.state)
            /\ ~tx' => out' = out
            /\ pc' = "run" =>
                  /\ rbuf' = Drop(rbuf, Delivered)
                  /\ Delivered >= 1 \/ rbuf = <<>>
                  /\ ret' = (tx' \/ Delivered >= 1)
                  /\ handler'.state
                        = ReadInOrder([state |-> StateAtReceive, n |-> 0],
                                      handler.data, rbuf, 1, Delivered).state]_vars

\* C14 witness: one poll call has transmitted the whole ERROR\r\n of `get\n`
\* and then read the start of the next request, the bytes up to the end of
\* the VecDeque's storage; the bytes that wrapped around are still waiting
C14_Witness ==
    /\ tx = TRUE /\ ret = TRUE /\ pc = "run"
    /\ Tag = "ReadingKey" /\ rbuf /= <<>>
    /\ out = ExpectedError

\* SendingError as an error leaves it: the whole ERROR\r\n still to send
ErrorState(flush_line, error) ==
    [tag |-> "SendingError", flush_line |-> flush_line,
     remaining |-> <<69, 82, 82, 79, 82, 13, 10>>, error |-> error]

\* the state after byte c is received in the current state
AfterByte(c) == receive_byte(handler.state, handler.data, c).state

\* C15: in ReadingCommand a space or newline after a token other than
\* get/set gives UnknownCommand with flush_line set iff the byte was the
\* space, a newline after get/set gives MissingArgument without flush_line,
\* a space after get/set is no error, a fourth token byte gives
\* CommandTooLong with flush_line and a first, second or third one is
\* stored; in ReadingKey a 251st key byte gives KeyTooLong with flush_line,
\* any earlier one is stored, and a terminator after a GET key of exactly 250
\* bytes is no error.  Every error state has the whole ERROR\r\n to send.
C15_ErrorClassification ==
    /\ Tag = "ReadingCommand" =>
          \A c \in SampleBytes :
              LET tok == handler.state.buf
              IN  /\ (c \in {32, 10} /\ ~IsGetOrSet(tok))
                        => AfterByte(c) = ErrorState(c = 32, "UnknownCommand")
                  /\ (c = 10 /\ IsGetOrSet(tok))
                        => AfterByte(c) = ErrorState(FALSE, "MissingArgument")
                  /\ (c = 32 /\ IsGetOrSet(tok))
                        => AfterByte(c).tag = "ReadingKey"
                  /\ (c \notin {32, 10} /\ Len(tok) >= 3)
                        => AfterByte(c) = ErrorState(TRUE, "CommandTooLong")
                  /\ (c \notin {32, 10} /\ Len(tok) < 3)
                        => AfterByte(c)
                             = [tag |-> "ReadingCommand", buf |-> tok \o <<c>>]
    /\ Tag = "ReadingKey" =>
          \A c \in SampleBytes :
              LET key == handler.state.key
              IN  /\ (c \notin {32, 10} /\ Len(key) >= 250)
                        => AfterByte(c) = ErrorState(TRUE, "KeyTooLong")
                  /\ (c \notin {32, 10} /\ Len(key) < 250)
                        => AfterByte(c)
                             = [handler.state EXCEPT !.key = key \o <<c>>]
                  /\ (c \in {32, 10} /\ handler.state.cmd = "Get")
                        => /\ AfterByte(c).tag /= "SendingError"
                           /\ key \in DOMAIN handler.data
                                 => /\ AfterByte(c).tag = "SendingGetVALUE"
                                    /\ AfterByte(c).key = key
    /\ Tag = "SendingError" =>
          /\ handler.state.error \in {"UnknownCommand", "MissingArgument",
                                       "CommandTooLong", "KeyTooLong"}
          /\ handler.state.error \in {"CommandTooLong", "KeyTooLong"}
                => (handler.state.flush_line \/ 10 \in {input[i] : i \in 1..fed})

\* C15 witness: the 251st key byte has just raised KeyTooLong
C15_Witness ==
    /\ handler.state = ErrorState(TRUE, "KeyTooLong")
    /\ fed >= 4 + 251

\* the state after one iteration of the write loop with `room` bytes left
AfterArm(room) == transmit_arm(handler.state, handler.data, room).state

C16_Inv ==
    /\ Tag = "SendingError" =>
          /\ \A c \in SampleBytes :
                AfterByte(c) = IF handler.state.flush_line /\ c = 10
                               THEN [handler.state EXCEPT !.flush_line = FALSE]
                               ELSE handler.state
          /\ \A room \in 1..cap :
                AfterArm(room)
                  = IF room < Len(handler.state.remaining)
                    THEN [handler.state EXCEPT
                            !.remaining = Drop(handler.state.remaining, room)]
                    ELSE IF handler.state.flush_line
                    THEN [tag |-> "FlushLine"]
                    ELSE [tag |-> "ReadingCommand", buf |-> <<>>]
    /\ Tag = "FlushLine" =>
          /\ ~wants_to_send(handler.state)
          /\ \A c \in SampleBytes :
                AfterByte(c) = IF c = 10
                               THEN [tag |-> "ReadingCommand", buf |-> <<>>]
                               ELSE [tag |-> "FlushLine"]
    /\ Tag \notin {"SendingError", "FlushLine"} =>
          /\ \A c \in SampleBytes : AfterByte(c).tag /= "FlushLine"
          /\ \A room \in 1..cap : AfterArm(room).tag /= "FlushLine"

C16_Step ==
    /\ (Tag' = "FlushLine" /\ Tag /= "FlushLine")
          => (Tag = "SendingError" /\ handler.state.flush_line)
    /\ (Tag = "FlushLine" /\ fed' = fed) => (out' = out /\ tx' = FALSE)

\* C16: in SendingError a received byte changes nothing but flush_line,
\* which the first newline clears; the iteration of the write loop that
\* writes the last byte of ERROR\r\n goes to FlushLine if flush_line is still
\* set and to the initial state otherwise; FlushLine is entered by nothing
\* else, wants no transmit call and writes nothing, stays on every byte but
\* the newline and resets to the initial state on the newline.
C16_FlushLine == []C16_Inv /\ [][C16_Step]_vars

\* C16 witness: the reply to an error was sent with the rest of its line
\* still to come, and the handler waits in FlushLine
C16_Witness ==
    /\ Tag = "FlushLine" /\ out = ExpectedError
    /\ fed < Len(input) /\ rbuf = <<>>

\* a GET key that is not in the Store has been read
MissedKey ==
    /\ Tag = "ReadingKey" /\ handler.state.cmd = "Get"
    /\ handler.state.key \notin DOMAIN handler.data

C17_Inv ==
    /\ MissedKey =>
          /\ AfterByte(32) = handler.state
          /\ \A c \in SampleBytes \ {32, 10} :
                Len(handler.state.key) < 250 =>
                    receive_byte(AfterByte(32), handler.data, c).state.key
                        = handler.state.key \o <<c>>
    /\ (input = <<103, 101, 116, 32, 97, 32, 98, 10>>
            /\ <<97>> \notin DOMAIN handler.data) =>
          /\ Tag = "ReadingKey" =>
                IsPrefix(handler.state.key, <<97, 98>>)
          /\ Tag \in GetStages => handler.state.entry = <<97, 98>>
          /\ (AllFed /\ rbuf = <<>> /\ handler.state = Default) =>
                out = IF <<97, 98>> \in DOMAIN handler.data
                      THEN ExpectedHit(<<97, 98>>, handler.data[<<97, 98>>])
                      ELSE ExpectedMiss

C17_Step == (MissedKey /\ fed' = fed /\ Tag' = "ReadingKey") => out' = out

\* C17: a space after a GET key that is not in the Store leaves the state as
\* it is, key included, and nothing is written; the bytes after the space
\* are appended to that key, so the next terminator looks up the tokens
\* joined without the space: `get a b\n` with no `a` stored is answered as
\* `get ab\n` (the hit reply for `ab` if it is stored, END\r\n if not).
C17_StaleKey == []C17_Inv /\ [][C17_Step]_vars

\* C17 witness: `get a b\n` was answered with the Entry stored under `ab`
C17_Witness ==
    /\ input = <<103, 101, 116, 32, 97, 32, 98, 10>>
    /\ DOMAIN handler.data = {<<97, 98>>}
    /\ AllFed /\ rbuf = <<>> /\ handler.state = Default
    /\ out = ExpectedHit(<<97, 98>>, handler.data[<<97, 98>>])

\* C18: whenever poll has returned false the handler is in ReadingCommand,
\* ReadingKey or FlushLine: no state with reply bytes left to transmit is one
\* in which the driver loop `while handler.poll(&mut s) {}` stops.
C18_NoPendingReply == (pc = "run" /\ ret = FALSE) => Tag \in IdleTags

IsSuffix(s, t) == Len(s) <= Len(t) /\ Drop(t, Len(t) - Len(s)) = s

\* a command or key buffer: at most n bytes, none a space or a newline
IsToken(b, n) == Len(b) <= n /\ \A i \in 1..Len(b) : b[i] \notin {32, 10}

C19_Inv ==
    /\ Tag = "ReadingCommand" => IsToken(handler.state.buf, 3)
    /\ Tag \in {"ReadingKey", "SendingGetVALUE", "SendingGetKey"}
          => IsToken(handler.state.key, 250)
    /\ Tag = "SendingGetKey"
          => handler.state.sent \in 0..Len(handler.state.key)
    /\ Tag \in {"SendingGetFlags", "SendingGetLen"}
          => handler.state.sent \in 0..Len(handler.state.data)
    /\ Tag = "SendingGetData"
          => handler.state.sent
               \in 0..Len(handler.data[handler.state.entry].value)
    /\ Tag = "SendingError"
          => IsSuffix(handler.state.remaining, <<69, 82, 82, 79, 82, 13, 10>>)
    /\ Tag = "SendingGetVALUE"
          => IsSuffix(handler.state.remaining, <<86, 65, 76, 85, 69, 32>>)
    /\ Tag = "SendingEnd"
          => \/ IsSuffix(handler.state.remaining, <<69, 78, 68, 13, 10>>)
             \/ IsSuffix(handler.state.remaining,
                         <<13, 10, 69, 78, 68, 13, 10>>)
    /\ Tag \in SendingTags
          => \A room \in 1..cap :
                Len(transmit_arm(handler.state, handler.data, room).bytes)
                    <= room

\* C19: the command buffer holds at most 3 and the key buffer at most 250
\* bytes, none of them a space or a newline; every sent cursor lies between
\* 0 and the length of the key, digits or value it indexes; every remaining
\* literal is a suffix of ERROR\r\n, of `VALUE `, of END\r\n or of
\* \r\nEND\r\n; an iteration of the write loop never writes more than the room
\* it has, and a poll call never transmits more bytes than the buffer holds.
C19_Bounds == []C19_Inv /\ [][Len(out') <= Len(out) + cap]_vars

\* C19 witness: a 250-byte key is being transmitted through the 100-byte
\* buffer, the first call having taken 94 bytes of it after `VALUE `
C19_Witness ==
    /\ Tag = "SendingGetKey" /\ Len(handler.state.key) = 250
    /\ handler.state.sent = 94 /\ cap = 100

====
